---------------------------- MODULE Spec2Model ----------------------------
(* A model of sandbox/grist/identifiers.py: the sanitisation of labels   *)
(* into identifiers and their disambiguation against an avoid set.       *)
(*                                                                       *)
(* A string is a sequence of characters; a character is a one-element    *)
(* name ("a", "1", "_") or, for a non-ASCII code point, a mnemonic:      *)
(*   "a_acute"  U+00E1 LATIN SMALL LETTER A WITH ACUTE                   *)
(*   "A_ring"   U+00C5 LATIN CAPITAL LETTER A WITH RING ABOVE            *)
(*   "angstrom" U+212B ANGSTROM SIGN                                     *)
(*   "zh"       U+4E2D a CJK ideograph                                   *)
(*   "ar3"      U+0663 ARABIC-INDIC DIGIT THREE                          *)
(*   "iota_dt"  U+0390 GREEK SMALL LETTER IOTA WITH DIALYTIKA AND TONOS  *)
(*   "Iota"     U+0399 GREEK CAPITAL LETTER IOTA                         *)
(*   "diaer"    U+0308 COMBINING DIAERESIS                               *)
(*   "tonos"    U+0301 COMBINING ACUTE ACCENT                            *)
EXTENDS Integers, Sequences, FiniteSets, TLC

VARIABLES pc, fn, label, labels, argRef, arg_avoid, heap, avoidRef, result,
          idx, ident, ident_base, next_suffix, letters

vars == <<pc, fn, label, labels, argRef, arg_avoid, heap, avoidRef, result,
          idx, ident, ident_base, next_suffix, letters>>

-----------------------------------------------------------------------------
(* Bounds of the model.                                                  *)

MaxLen == 2

MaxAvoid == 2

MaxList == 2

-----------------------------------------------------------------------------
(* Characters.                                                           *)

ascii_lowercase ==
  << "a","b","c","d","e","f","g","h","i","j","k","l","m",
     "n","o","p","q","r","s","t","u","v","w","x","y","z" >>

ascii_uppercase ==
  << "A","B","C","D","E","F","G","H","I","J","K","L","M",
     "N","O","P","Q","R","S","T","U","V","W","X","Y","Z" >>

ascii_digits == << "0","1","2","3","4","5","6","7","8","9" >>

Range(s) == { s[i] : i \in 1..Len(s) }

IndexOf(s, c) == CHOOSE i \in 1..Len(s) : s[i] = c

AsciiLetters == Range(ascii_lowercase) \cup Range(ascii_uppercase)

(* unicodedata.category(c)[0] == 'L' *)
IsLetter(c) == c \in AsciiLetters \cup {"a_acute", "A_ring", "angstrom", "zh", "iota_dt", "Iota"}

(* unicodedata.category(c) == 'Nd'; also what \d matches in a str pattern *)
IsDecimalDigit(c) == c \in Range(ascii_digits) \cup {"ar3"}

is_valid_ident_char(c) == c = "_" \/ IsLetter(c) \/ IsDecimalDigit(c)

(* 'LATIN' in unicodedata.name(c, '') *)
is_latin_char(c) == c \in AsciiLetters \cup {"a_acute", "A_ring"}

(* NFKD of one Latin character with the combining marks dropped *)
NFKDStripped(c) ==
  CASE c = "a_acute" -> <<"a">>
    [] c = "A_ring"  -> <<"A">>
    [] OTHER -> <<c>>

(* NFC of one character *)
NFC(c) == IF c = "angstrom" THEN <<"A_ring">> ELSE <<c>>

(* str.upper() of one character *)
UpperChar(c) ==
  CASE c \in Range(ascii_lowercase) -> <<ascii_uppercase[IndexOf(ascii_lowercase, c)]>>
    [] c = "a_acute" -> <<"A_acute">>
    [] c = "iota_dt" -> <<"Iota", "diaer", "tonos">>
    [] OTHER -> <<c>>

(* str.capitalize() of a one-character string: its title-case mapping *)
CapitalizeChar(c) == UpperChar(c)

RECURSIVE Upper(_)
Upper(s) == IF s = <<>> THEN <<>> ELSE UpperChar(Head(s)) \o Upper(Tail(s))

(* keyword.kwlist *)
kwlist ==
  { <<"F","a","l","s","e">>, <<"N","o","n","e">>, <<"T","r","u","e">>,
    <<"a","n","d">>, <<"a","s">>, <<"a","s","s","e","r","t">>,
    <<"a","s","y","n","c">>, <<"a","w","a","i","t">>, <<"b","r","e","a","k">>,
    <<"c","l","a","s","s">>, <<"c","o","n","t","i","n","u","e">>,
    <<"d","e","f">>, <<"d","e","l">>, <<"e","l","i","f">>, <<"e","l","s","e">>,
    <<"e","x","c","e","p","t">>, <<"f","i","n","a","l","l","y">>,
    <<"f","o","r">>, <<"f","r","o","m">>, <<"g","l","o","b","a","l">>,
    <<"i","f">>, <<"i","m","p","o","r","t">>, <<"i","n">>, <<"i","s">>,
    <<"l","a","m","b","d","a">>, <<"n","o","n","l","o","c","a","l">>,
    <<"n","o","t">>, <<"o","r">>, <<"p","a","s","s">>, <<"r","a","i","s","e">>,
    <<"r","e","t","u","r","n">>, <<"t","r","y">>, <<"w","h","i","l","e">>,
    <<"w","i","t","h">>, <<"y","i","e","l","d">> }

iskeyword(s) == s \in kwlist

-----------------------------------------------------------------------------
(* _sanitize_ident                                                       *)

(* A label is absent (None) or a string. *)
NoneLabel == [none |-> TRUE, s |-> <<>>]

Text(s) == [none |-> FALSE, s |-> s]

(* ident = u"" if ident is None else str(ident) *)
CoerceLabel(l) == IF l.none THEN <<>> ELSE l.s

NormalizeChar(c) == IF is_latin_char(c) THEN NFKDStripped(c) ELSE NFC(c)

RECURSIVE NormalizeChars(_)
NormalizeChars(s) ==
  IF s = <<>> THEN <<>> ELSE NormalizeChar(Head(s)) \o NormalizeChars(Tail(s))

ReplaceInvalid(s) ==
  [i \in 1..Len(s) |-> IF is_valid_ident_char(s[i]) THEN s[i] ELSE "_"]

RECURSIVE LStripUnderscore(_)
LStripUnderscore(s) ==
  IF s # <<>> /\ Head(s) = "_" THEN LStripUnderscore(Tail(s)) ELSE s

(* _invalid_ident_start_re = ^(?=[0-9_]) *)
InvalidIdentStart(s) == s # <<>> /\ s[1] \in Range(ascii_digits) \cup {"_"}

FixStart(s, prefix) == IF InvalidIdentStart(s) THEN prefix \o s ELSE s

CapitalizeFirst(s) == CapitalizeChar(s[1]) \o Tail(s)

(* lines 59-95: everything before the keyword loop *)
SanitizeHead(l, prefix, capitalize) ==
  LET cleaned == FixStart(LStripUnderscore(ReplaceInvalid(NormalizeChars(CoerceLabel(l)))), prefix)
  IN  IF cleaned = <<>> THEN <<>>
      ELSE IF capitalize THEN CapitalizeFirst(cleaned) ELSE cleaned

(* faulty variant: the keyword loop left out *)
PrefixNever(s, prefix) == s

RECURSIVE PrefixWhileKeyword(_, _)
PrefixWhileKeyword(s, prefix) ==
  IF iskeyword(s) THEN PrefixWhileKeyword(prefix \o s, prefix) ELSE s

sanitize_ident(l, prefix, capitalize) ==
  LET head == SanitizeHead(l, prefix, capitalize)
  IN  IF head = <<>> THEN <<>> ELSE PrefixWhileKeyword(head, prefix)

-----------------------------------------------------------------------------
(* _add_suffix, _maybe_add_suffix, _uppercase                            *)

(* "%d" % n *)
RECURSIVE FormatInt(_)
FormatInt(n) ==
  IF n < 10 THEN <<ascii_digits[n + 1]>>
  ELSE FormatInt(n \div 10) \o <<ascii_digits[(n % 10) + 1]>>

(* _ends_in_digit_re = \d$ *)
EndsInDigit(s) == s # <<>> /\ IsDecimalDigit(s[Len(s)])

SuffixBase(base) == IF EndsInDigit(base) THEN base \o <<"_">> ELSE base

(* "%s%d" % (ident_base, next_suffix) *)
Suffixed(base, n) == base \o FormatInt(n)

(* faulty variant: the identifier compared as written, not upper-cased *)
NotAvoidedRaw(s, avoid) == s \notin avoid

(* ident.upper() not in avoid *)
NotAvoided(s, avoid) == Upper(s) \notin avoid

(* faulty variant: the suffix stepped by two *)
NextSuffixSkip(n) == n + 2

(* faulty variant: the suffix never stepped *)
NextSuffixStuck(n) == n

(* next_suffix += 1 *)
NextSuffix(n) == n + 1

RECURSIVE SuffixLoop(_, _, _)
SuffixLoop(base, avoid, n) ==
  IF NotAvoided(Suffixed(base, n), avoid) THEN Suffixed(base, n)
  ELSE SuffixLoop(base, avoid, NextSuffix(n))

add_suffix(base, avoid, n) == SuffixLoop(SuffixBase(base), avoid, n)

maybe_add_suffix(s, avoid) ==
  IF NotAvoided(s, avoid) THEN s ELSE add_suffix(s, avoid, 2)

(* faulty variant: the avoid set taken as written, not upper-cased *)
UppercaseNone(avoid) == avoid

uppercase(avoid) == { Upper(name) : name \in avoid }

-----------------------------------------------------------------------------
(* _make_letters, _gen_ident                                             *)

FirstLetters == <<ascii_uppercase[1]>>

(* faulty variant: after the last element of a length, the length grows by two *)
NextLettersSkipLength(l) ==
  IF \A i \in 1..Len(l) : l[i] = ascii_uppercase[Len(ascii_uppercase)]
  THEN [i \in 1..(Len(l) + 2) |-> ascii_uppercase[1]]
  ELSE [i \in 1..Len(l) |->
          IF i < Len(l) THEN l[i]
          ELSE ascii_uppercase[IndexOf(ascii_uppercase, l[i]) + 1]]

(* The element itertools.product yields after l, the generator going on  *)
(* to the next length after the last element of a length.                *)
NextLetters(l) ==
  IF \A i \in 1..Len(l) : l[i] = ascii_uppercase[Len(ascii_uppercase)]
  THEN [i \in 1..(Len(l) + 1) |-> ascii_uppercase[1]]
  ELSE LET k == CHOOSE j \in 1..Len(l) :
                  /\ l[j] # ascii_uppercase[Len(ascii_uppercase)]
                  /\ \A m \in (j + 1)..Len(l) : l[m] = ascii_uppercase[Len(ascii_uppercase)]
       IN  [i \in 1..Len(l) |->
              IF i < k THEN l[i]
              ELSE IF i = k THEN ascii_uppercase[IndexOf(ascii_uppercase, l[k]) + 1]
              ELSE ascii_uppercase[1]]

(* letter not in avoid *)
LetterFree(l, avoid) == l \notin avoid

RECURSIVE LetterLoop(_, _)
LetterLoop(l, avoid) ==
  IF LetterFree(l, avoid) THEN l ELSE LetterLoop(NextLetters(l), avoid)

gen_ident(avoid) == LetterLoop(FirstLetters, uppercase(avoid))

-----------------------------------------------------------------------------
(* The entry points as functions of their arguments.                     *)

TablePrefix == <<"T">>

ColPrefix == <<"c">>

TableBase == <<"T","a","b","l","e">>

pick_table_ident(l, avoid) ==
  LET av == uppercase(avoid)
      s  == sanitize_ident(l, TablePrefix, TRUE)
  IN  IF s # <<>> THEN maybe_add_suffix(s, av) ELSE add_suffix(TableBase, av, 1)

pick_col_ident(l, avoid) ==
  LET av == uppercase(avoid)
      s  == sanitize_ident(l, ColPrefix, FALSE)
  IN  IF s # <<>> THEN maybe_add_suffix(s, av) ELSE gen_ident(av)

-----------------------------------------------------------------------------
(* The inputs the model draws from.                                      *)

CoreAlphabet == {"a", "s", "A", "1", "_", "-"}

ExoticAlphabet == {"a_acute", "angstrom", "zh", "ar3", "iota_dt"}

Alphabet == CoreAlphabet \cup ExoticAlphabet

SeqsUpTo(S, n) == UNION { [1..k -> S] : k \in 0..n }

ExtraLabels == { <<"t","r","u","e">>, <<"N","o","n","e">> }

Labels ==
  {NoneLabel} \cup
  { Text(s) : s \in SeqsUpTo(CoreAlphabet, MaxLen)
                    \cup { <<x>> : x \in Alphabet }
                    \cup { <<x, y>> : x \in Alphabet, y \in Alphabet }
                    \cup ExtraLabels }

ListLabels == { NoneLabel, Text(<<"a">>), Text(<<"A">>), Text(<<"a","2">>) }

LabelLists == SeqsUpTo(ListLabels, MaxList)

AvoidPool ==
  { <<"a">>, <<"B">>, <<"a","2">>, <<"a","1">>, <<"A","1","_","2">>,
    <<"T","A","B","L","E","1">>, <<"t","a","b","l","e","2">> }

AllLowerLetters == { <<c>> : c \in Range(ascii_lowercase) }

AvoidSets ==
  { S \in SUBSET AvoidPool : Cardinality(S) <= MaxAvoid }
  \cup { AllLowerLetters, AllLowerLetters \cup { <<"a","a">> } }

-----------------------------------------------------------------------------
(* Set objects.  heap maps an object to its members: the set the caller  *)
(* passes, the default set `avoid=set()` of each entry point (one object *)
(* per function, made when the module is loaded), and the set a running  *)
(* call builds for itself.                                               *)

Objs == {"caller", "default_table", "default_col", "default_list", "local"}

DefaultOf(f) ==
  CASE f = "table" -> "default_table"
    [] f = "col"   -> "default_col"
    [] f = "list"  -> "default_list"

(* faulty variant: the argument upper-cased in place *)
SameSetObj(ref) == ref

(* {... for name in avoid} is a new set object, never the argument *)
NewSetObj(ref) == "local"

(* avoid = _uppercase(avoid) *)
Rebind(h, ref) == [h EXCEPT ![NewSetObj(ref)] = uppercase(h[ref])]

(* the call's own set dies with the call *)
Free(h) == [h EXCEPT !["local"] = {}]

(* faulty variant: the chosen identifier never added *)
AddNothing(h, ref, s) == h

(* avoid.add(ident.upper()) *)
AddUpper(h, ref, s) == [h EXCEPT ![ref] = @ \cup {Upper(s)}]

stepVars == <<ident, ident_base, next_suffix, letters>>

callVars == <<fn, label, labels, argRef, arg_avoid>>

Init ==
  /\ pc = "idle"
  /\ fn = "none"
  /\ label = NoneLabel
  /\ labels = <<>>
  /\ argRef = "caller"
  /\ arg_avoid = {}
  /\ \E S \in AvoidSets :
       heap = [o \in Objs |-> IF o = "caller" THEN S ELSE {}]
  /\ avoidRef = "local"
  /\ result = <<>>
  /\ idx = 0
  /\ ident = <<>>
  /\ ident_base = <<>>
  /\ next_suffix = 0
  /\ letters = <<>>

(* The caller starts a call: the arguments are bound. *)
Bind(f, l, ls, ref) ==
  /\ pc = "idle"
  /\ fn' = f
  /\ label' = l
  /\ labels' = ls
  /\ argRef' = ref
  /\ arg_avoid' = heap[ref]

-----------------------------------------------------------------------------
(* Spec: one action per call (the list's loop one action per label).     *)

CallTable(l, ref) ==
  /\ Bind("table", l, <<>>, ref)
  /\ heap' = Free(Rebind(heap, ref))
  /\ result' = << pick_table_ident(l, heap[ref]) >>
  /\ pc' = "returned"
  /\ UNCHANGED <<avoidRef, idx, stepVars>>

CallCol(l, ref) ==
  /\ Bind("col", l, <<>>, ref)
  /\ heap' = Free(Rebind(heap, ref))
  /\ result' = << pick_col_ident(l, heap[ref]) >>
  /\ pc' = "returned"
  /\ UNCHANGED <<avoidRef, idx, stepVars>>

ListStart(ls, ref) ==
  /\ Bind("list", NoneLabel, ls, ref)
  /\ heap' = Rebind(heap, ref)
  /\ avoidRef' = NewSetObj(ref)
  /\ result' = <<>>
  /\ idx' = 1
  /\ pc' = "list_loop"
  /\ UNCHANGED stepVars

ListIter ==
  /\ pc = "list_loop"
  /\ idx <= Len(labels)
  /\ LET id == pick_col_ident(labels[idx], heap[avoidRef])
     IN  /\ heap' = AddUpper(heap, avoidRef, id)
         /\ result' = Append(result, id)
  /\ idx' = idx + 1
  /\ UNCHANGED <<pc, callVars, avoidRef, stepVars>>

ListReturn ==
  /\ pc = "list_loop"
  /\ idx > Len(labels)
  /\ pc' = "returned"
  /\ heap' = Free(heap)
  /\ avoidRef' = "local"
  /\ idx' = 0
  /\ UNCHANGED <<callVars, result, stepVars>>

(* The caller takes the result; the next call may start. *)
Return ==
  /\ pc = "returned"
  /\ pc' = "idle"
  /\ fn' = "none"
  /\ label' = NoneLabel
  /\ labels' = <<>>
  /\ argRef' = "caller"
  /\ arg_avoid' = {}
  /\ result' = <<>>
  /\ UNCHANGED <<heap, avoidRef, idx, stepVars>>

Next ==
  \/ \E l \in Labels, ref \in {"caller", "default_table"} : CallTable(l, ref)
  \/ \E l \in Labels, ref \in {"caller", "default_col"} : CallCol(l, ref)
  \/ \E ls \in LabelLists, ref \in {"caller", "default_list"} : ListStart(ls, ref)
  \/ ListIter
  \/ ListReturn
  \/ Return

Spec == Init /\ [][Next]_vars

-----------------------------------------------------------------------------
(* TermSpec: the same calls, one action per step of each loop.           *)

TermLabels ==
  { NoneLabel, Text(<<"a">>), Text(<<"a","s">>), Text(<<"a","1">>),
    Text(<<"t","r","u","e">>), Text(<<"-">>) }

TermListLabels == { NoneLabel, Text(<<"a">>), Text(<<"a","2">>) }

TermLabelLists == SeqsUpTo(TermListLabels, MaxList)

(* the entry point whose body is running: the list runs pick_col_ident *)
Kind == IF fn = "table" THEN "table" ELSE "col"

PrefixOf(k) == IF k = "table" THEN TablePrefix ELSE ColPrefix

CapitalizeOf(k) == k = "table"

(* the `avoid` of the running pick_table_ident or pick_col_ident: the    *)
(* call's own set, or the upper-cased copy of the list's                 *)
LocalAvoid == IF fn = "list" THEN uppercase(heap[avoidRef]) ELSE heap[avoidRef]

StepCall(f, l, ls, ref) ==
  /\ Bind(f, l, ls, ref)
  /\ heap' = Rebind(heap, ref)
  /\ avoidRef' = NewSetObj(ref)
  /\ result' = <<>>
  /\ idx' = IF f = "list" THEN 1 ELSE 0
  /\ pc' = IF f = "list" THEN "list_loop" ELSE "sanitize"
  /\ UNCHANGED stepVars

(* for ident in ident_list: ident = pick_col_ident(ident, avoid=avoid) *)
StepListIter ==
  /\ pc = "list_loop"
  /\ idx <= Len(labels)
  /\ label' = labels[idx]
  /\ pc' = "sanitize"
  /\ UNCHANGED <<fn, labels, argRef, arg_avoid, heap, avoidRef, result, idx, stepVars>>

StepSanitize ==
  /\ pc = "sanitize"
  /\ ident' = SanitizeHead(label, PrefixOf(Kind), CapitalizeOf(Kind))
  /\ pc' = IF ident' = <<>> THEN "fallback" ELSE "keyword_loop"
  /\ UNCHANGED <<callVars, heap, avoidRef, result, idx, ident_base, next_suffix, letters>>

(* while iskeyword(ident): ident = prefix + ident *)
StepKeyword ==
  /\ pc = "keyword_loop"
  /\ IF iskeyword(ident)
     THEN /\ ident' = PrefixOf(Kind) \o ident
          /\ pc' = "keyword_loop"
     ELSE /\ ident' = ident
          /\ pc' = "resolve"
  /\ UNCHANGED <<callVars, heap, avoidRef, result, idx, ident_base, next_suffix, letters>>

(* _maybe_add_suffix, and the start of _add_suffix *)
StepResolve ==
  /\ pc = "resolve"
  /\ IF NotAvoided(ident, LocalAvoid)
     THEN /\ pc' = "found"
          /\ UNCHANGED <<ident_base, next_suffix>>
     ELSE /\ ident_base' = SuffixBase(ident)
          /\ next_suffix' = 2
          /\ pc' = "suffix_loop"
  /\ UNCHANGED <<callVars, heap, avoidRef, result, idx, ident, letters>>

(* the sanitised label is empty: _add_suffix("Table", avoid, 1) or _gen_ident(avoid) *)
StepFallback ==
  /\ pc = "fallback"
  /\ IF Kind = "table"
     THEN /\ ident_base' = SuffixBase(TableBase)
          /\ next_suffix' = 1
          /\ pc' = "suffix_loop"
          /\ UNCHANGED letters
     ELSE /\ letters' = FirstLetters
          /\ pc' = "letter_loop"
          /\ UNCHANGED <<ident_base, next_suffix>>
  /\ UNCHANGED <<callVars, heap, avoidRef, result, idx, ident>>

(* one turn of the while True of _add_suffix *)
StepSuffix ==
  /\ pc = "suffix_loop"
  /\ IF NotAvoided(Suffixed(ident_base, next_suffix), LocalAvoid)
     THEN /\ ident' = Suffixed(ident_base, next_suffix)
          /\ pc' = "found"
          /\ UNCHANGED next_suffix
     ELSE /\ next_suffix' = NextSuffix(next_suffix)
          /\ UNCHANGED <<ident, pc>>
  /\ UNCHANGED <<callVars, heap, avoidRef, result, idx, ident_base, letters>>

(* one turn of the for of _gen_ident *)
StepLetter ==
  /\ pc = "letter_loop"
  /\ IF LetterFree(letters, uppercase(LocalAvoid))
     THEN /\ ident' = letters
          /\ pc' = "found"
          /\ UNCHANGED letters
     ELSE /\ letters' = NextLetters(letters)
          /\ UNCHANGED <<ident, pc>>
  /\ UNCHANGED <<callVars, heap, avoidRef, result, idx, ident_base, next_suffix>>

(* pick_table_ident or pick_col_ident returns to the caller *)
StepFoundSingle ==
  /\ pc = "found"
  /\ fn # "list"
  /\ result' = <<ident>>
  /\ heap' = Free(heap)
  /\ pc' = "returned"
  /\ ident' = <<>>
  /\ ident_base' = <<>>
  /\ next_suffix' = 0
  /\ letters' = <<>>
  /\ UNCHANGED <<callVars, avoidRef, idx>>

(* pick_col_ident returns to the list's loop *)
StepFoundList ==
  /\ pc = "found"
  /\ fn = "list"
  /\ heap' = AddUpper(heap, avoidRef, ident)
  /\ result' = Append(result, ident)
  /\ idx' = idx + 1
  /\ pc' = "list_loop"
  /\ label' = NoneLabel
  /\ ident' = <<>>
  /\ ident_base' = <<>>
  /\ next_suffix' = 0
  /\ letters' = <<>>
  /\ UNCHANGED <<fn, labels, argRef, arg_avoid, avoidRef>>

StepNext ==
  \/ \E f \in {"table", "col"}, l \in TermLabels :
       \E ref \in {"caller", DefaultOf(f)} : StepCall(f, l, <<>>, ref)
  \/ \E ls \in TermLabelLists, ref \in {"caller", "default_list"} :
       StepCall("list", NoneLabel, ls, ref)
  \/ StepListIter
  \/ StepSanitize
  \/ StepKeyword
  \/ StepResolve
  \/ StepFallback
  \/ StepSuffix
  \/ StepLetter
  \/ StepFoundSingle
  \/ StepFoundList
  \/ ListReturn
  \/ Return

(* A call runs on one thread with nothing to wait for: a step that can   *)
(* be taken is taken.                                                    *)
TermSpec == Init /\ [][StepNext]_vars /\ WF_vars(StepNext)

-----------------------------------------------------------------------------
(* Properties.                                                           *)

Single == pc = "returned" /\ fn \in {"table", "col"}

(* the sanitised candidate of the call that returned *)
Candidate == sanitize_ident(label, PrefixOf(Kind), CapitalizeOf(Kind))

EqualUpToCase(s, t) == Upper(s) = Upper(t)

(* C1: no returned identifier, of a single call or at any position of    *)
(* the list, equals a member of the caller's avoid set up to case.       *)
C1_AvoidsCallerSet ==
  \A i \in 1..Len(result) : \A a \in arg_avoid : ~EqualUpToCase(result[i], a)

(* a call returned whose candidate collided, up to case only, with a     *)
(* member of the avoid set *)
C1_Witness ==
  /\ Single
  /\ \E a \in arg_avoid : EqualUpToCase(Candidate, a) /\ Candidate # a /\ a # Upper(a)

(* C2: the identifier a single call returns is non-empty, made of        *)
(* letters, decimal digits and underscores, and starts with neither a    *)
(* decimal digit of any script nor an underscore.                        *)
C2_Grammar ==
  Single =>
    /\ result[1] # <<>>
    /\ \A i \in 1..Len(result[1]) : is_valid_ident_char(result[1][i])
    /\ ~IsDecimalDigit(result[1][1])
    /\ result[1][1] # "_"

(* C3 as claimed: the identifier a single call returns equals no keyword *)
(* up to case.                                                           *)
C3_NoKeywordUpToCase ==
  Single => \A k \in kwlist : ~EqualUpToCase(result[1], k)

(* C3 as amended: the identifier a single call returns is no keyword     *)
(* (compared exactly, as keyword.iskeyword compares).                    *)
C3_NoKeyword ==
  Single => ~iskeyword(result[1])

(* a call returned whose label was a keyword before the keyword loop *)
C3_Witness ==
  /\ Single
  /\ iskeyword(SanitizeHead(label, PrefixOf(Kind), CapitalizeOf(Kind)))

(* C4: no two positions of the list hold identifiers equal up to case.   *)
C4_ListDistinct ==
  fn = "list" =>
    \A i \in 1..Len(result) : \A j \in 1..Len(result) :
      i # j => ~EqualUpToCase(result[i], result[j])

(* the list returned for labels that differ in case only, none avoided *)
C4_Witness ==
  /\ pc = "returned" /\ fn = "list" /\ arg_avoid = {}
  /\ \E i \in 1..Len(labels) : \E j \in 1..Len(labels) :
       /\ i # j /\ labels[i] # labels[j]
       /\ ~labels[i].none /\ ~labels[j].none
       /\ EqualUpToCase(labels[i].s, labels[j].s)

(* C5: element i of the list is pick_col_ident of label i with the avoid *)
(* set united with the elements before it, and the list returned is as   *)
(* long as the list of labels.                                           *)
C5_ListIsFold ==
  fn = "list" =>
    /\ pc = "returned" => Len(result) = Len(labels)
    /\ Len(result) <= Len(labels)
    /\ \A i \in 1..Len(result) :
         result[i] = pick_col_ident(labels[i], arg_avoid \cup { result[j] : j \in 1..(i - 1) })

(* the list returned with the same label twice, answered differently *)
C5_Witness ==
  /\ pc = "returned" /\ fn = "list"
  /\ \E i \in 1..Len(labels) : \E j \in 1..Len(labels) :
       i < j /\ labels[i] = labels[j] /\ result[i] # result[j]

(* C6: no step changes the members of the caller's set or of a default   *)
(* set.                                                                  *)
C6_Frame ==
  [][\A o \in Objs \ {"local"} : heap'[o] = heap[o]]_vars

(* the list returned, having added to its set, for a caller's set with   *)
(* a member that is not upper-case *)
C6_Witness ==
  /\ pc = "returned" /\ fn = "list" /\ argRef = "caller" /\ Len(result) > 0
  /\ \E a \in heap["caller"] : a # Upper(a)

(* C7: sanitising a non-empty sanitised label gives it back.             *)
C7_Idempotent ==
  Single =>
    (Candidate # <<>> =>
       sanitize_ident(Text(Candidate), PrefixOf(Kind), CapitalizeOf(Kind)) = Candidate)

(* the n-th element of s, s2, s3, ... (s, s_2, s_3, ... after a digit) *)
SuffixSequence(s, n) ==
  IF n = 1 THEN s
  ELSE (IF IsDecimalDigit(s[Len(s)]) THEN s \o <<"_">> ELSE s) \o FormatInt(n)

(* C8: with a non-empty candidate s, a single call returns the first     *)
(* element of s, s2, s3, ... (s, s_2, s_3, ... when s ends in a decimal  *)
(* digit) that equals no member of the avoid set up to case.             *)
C8_FirstFreeSuffix ==
  (Single /\ Candidate # <<>>) =>
    \E n \in 1..(Cardinality(arg_avoid) + 1) :
      /\ result[1] = SuffixSequence(Candidate, n)
      /\ \A a \in arg_avoid : ~EqualUpToCase(SuffixSequence(Candidate, n), a)
      /\ \A m \in 1..(n - 1) :
           \E a \in arg_avoid : EqualUpToCase(SuffixSequence(Candidate, m), a)

(* a call returned the third element after a candidate ending in a digit *)
C8_Witness ==
  /\ Single /\ Candidate # <<>>
  /\ IsDecimalDigit(Candidate[Len(Candidate)])
  /\ result[1] = SuffixSequence(Candidate, 3)

(* the k-th numeral of bijective base 26 over A..Z, k >= 1 *)
RECURSIVE BijectiveBase26(_)
BijectiveBase26(k) ==
  IF k = 0 THEN <<>>
  ELSE BijectiveBase26((k - 1) \div 26) \o <<ascii_uppercase[((k - 1) % 26) + 1]>>

FallbackSequence(k) ==
  IF fn = "table" THEN TableBase \o FormatInt(k) ELSE BijectiveBase26(k)

(* C9: with an empty candidate, a single call returns the first element  *)
(* of Table1, Table2, ... or of A, ..., Z, AA, AB, ... that equals no    *)
(* member of the avoid set up to case.                                   *)
C9_FirstFreeFallback ==
  (Single /\ Candidate = <<>>) =>
    \E k \in 1..(Cardinality(arg_avoid) + 1) :
      /\ result[1] = FallbackSequence(k)
      /\ \A a \in arg_avoid : ~EqualUpToCase(FallbackSequence(k), a)
      /\ \A m \in 1..(k - 1) :
           \E a \in arg_avoid : EqualUpToCase(FallbackSequence(m), a)

(* pick_col_ident returned a two-letter fallback, A to Z and AA avoided *)
C9_Witness ==
  /\ Single /\ fn = "col" /\ Candidate = <<>>
  /\ Len(result[1]) = Len(FirstLetters) + 1
  /\ result[1] # BijectiveBase26(Len(ascii_uppercase) + 1)

(* C10: every call that has started returns, a single call one           *)
(* identifier and the list one identifier per label.                     *)
C10_Terminates ==
  (pc \notin {"idle", "returned"}) ~>
     (pc = "returned" /\ Len(result) = (IF fn = "list" THEN Len(labels) ELSE 1))

(* a suffix search found its identifier after more than one turn *)
C10_Witness ==
  pc = "found" /\ next_suffix > 2

=============================================================================
